---- MODULE Spec2Model ----
(***************************************************************************)
(* pingmole: the relay loader and its Load-stage filters (relays.rs,        *)
(* filters.rs, coord.rs), the concurrent latency prober (pinger.rs), its   *)
(* Ping-stage filter (filters.rs), the ranking step (reporter.rs) and the  *)
(* driver that strings them together (app.rs).                             *)
(*                                                                         *)
(* Spec follows app::run from the loaded relays to the report, SpecLoad    *)
(* follows it up to the loaded relays, SpecTimed follows the prober of one *)
(* relay with the time at which its steps happen, SpecRun follows app::run  *)
(* from the loader to the report, and FairSpec is Spec under the           *)
(* scheduling of the runtime.                                              *)
(*                                                                         *)
(* Durations are whole numbers of a fixed unit.  Strings are sequences of  *)
(* character codes, so that their ordering is the lexicographic one.       *)
(* Option<T> is a sequence of length at most one: None is <<>>, Some(x)    *)
(* is <<x>>.                                                               *)
(***************************************************************************)
EXTENDS Integers, Sequences, FiniteSets, TLC

\* ------------------------------------------------------------------ bounds
\* Longest list of candidate relays handed to RelaysPinger::new.
MaxRelays == 2
\* Largest configured probe count (cli.count).
MaxCount == 3
\* Longest elapsed time of a successful connection attempt, and largest
\* RTT threshold (cli.rtt).
MaxDur == 3
\* Most connection attempts of one batch, all probers together.
MaxAttempts == 4
\* Longest list of relays in the relay file or in the answer of the API.
MaxData == 3
\* Longest period of the interval, longest timeout, and the time up to which
\* the clock is followed.
MaxInterval == 2
MaxTimeout == 4
MaxTime == 6

\* ------------------------------------------------------------ Option<T>
None == <<>>
Some(x) == <<x>>
IsSome(o) == Len(o) = 1
Unwrap(o) == o[1]

\* ----------------------------------------------------------------- relays
\* A Coord is a place on one great circle, given by its arc length in
\* kilometres from a fixed origin; Circumference is the length of the circle
\* (2 * pi * R; R is 6371 km).
Circumference == 40030

\* Coord::distance_to: the great-circle distance in kilometres, the shorter
\* of the two arcs between the places.
distance_to(self, other) ==
  LET d == IF self >= other THEN self - other ELSE other - self
  IN  IF d <= Circumference - d THEN d ELSE Circumference - d

\* The relays the loader hands over when the operator is at the origin.
\* Country and city are strings (sequences of character codes), distance is
\* in kilometres.
Catalog ==
  { [ip |-> 1, country |-> <<19, 5>>, city |-> <<7, 15, 20>>, distance |-> 50,
     coord |-> 50, protocol |-> "WireGuard", is_active |-> TRUE],
    [ip |-> 2, country |-> <<4, 5>>,  city |-> <<2, 5, 18>>,  distance |-> 10,
     coord |-> 10, protocol |-> "OpenVPN", is_active |-> TRUE],
    [ip |-> 3, country |-> <<19, 5>>, city |-> <<19, 20>>,    distance |-> 30,
     coord |-> 30, protocol |-> "WireGuard", is_active |-> TRUE],
    [ip |-> 4, country |-> <<4, 5>>,  city |-> <<2, 5, 18>>,  distance |-> 10,
     coord |-> 40020, protocol |-> "OpenVPN", is_active |-> TRUE] }

\* What the relay file, or the API, says of a relay: those of the catalog,
\* a relay that is not active and a bridge.
Endpoint(protocol) == IF protocol = "OpenVPN" THEN "openvpn" ELSE "wireguard"

RawCatalog ==
  { [ip |-> c.ip, country |-> c.country, city |-> c.city, coord |-> c.coord,
     endpoint_data |-> Endpoint(c.protocol), active |-> TRUE] : c \in Catalog }
  \cup
  { [ip |-> 5, country |-> <<4, 5>>, city |-> <<2, 5, 18>>, coord |-> 10,
     endpoint_data |-> "openvpn", active |-> FALSE],
    [ip |-> 6, country |-> <<19, 5>>, city |-> <<19, 20>>, coord |-> 30,
     endpoint_data |-> "bridge", active |-> TRUE] }

\* Lists of distinct entries of the raw catalog, of length 0..MaxData.
DataLists ==
  UNION { { s \in [1..n -> RawCatalog] : \A i, j \in 1..n : i # j => s[i].ip # s[j].ip }
          : n \in 0..MaxData }

\* Where the operator may be: at the origin, between the relays, and at the
\* other side of the origin.
Locations == {0, 40, 40020}

\* cli.distance, in kilometres; 500 is its default.
Distances == {0, 10, 30, 500}

Protocol == {"OpenVPN", "WireGuard"}

Ips == { c.ip : c \in RawCatalog }

\* Lists of distinct catalog relays, of length 0..MaxRelays.
RelayLists ==
  UNION { { s \in [1..n -> Catalog] : \A i, j \in 1..n : i # j => s[i].ip # s[j].ip }
          : n \in 0..MaxRelays }

Durations == 1..MaxDur

SortBy == {"Country", "City", "MeanRTT", "MedianRTT", "Distance"}

\* ----------------------------------------------------------------- loader
\* RelaysLoader::resolve_protocol: "openvpn" and an object with the key
\* "wireguard" give a protocol, anything else ("bridge") gives none.
resolve_protocol(endpoint_data) ==
  IF endpoint_data = "openvpn" THEN Some("OpenVPN")
  ELSE IF endpoint_data = "wireguard" THEN Some("WireGuard")
  ELSE None

FilterByDistance_new(coord, distance) ==
  [kind |-> "FilterByDistance", coord |-> coord, distance |-> distance]

FilterByProtocol_new(protocol) ==
  [kind |-> "FilterByProtocol", protocol |-> protocol]

\* The Coord handed to FilterByDistance::new: where the operator is.
FilterCoord(operator) == operator

\* A mutation of FilterByDistance::matches: the threshold itself is let in.
FilterByDistance_matches_inclusive(f, relay) ==
  distance_to(relay.coord, f.coord) <= f.distance

\* FilterByDistance::matches.
FilterByDistance_matches(f, relay) ==
  distance_to(relay.coord, f.coord) < f.distance

\* A mutation of FilterByProtocol::matches: map_or(false, ..).
FilterByProtocol_matches_none_rejects(f, relay) ==
  IF IsSome(f.protocol) THEN relay.protocol = Unwrap(f.protocol) ELSE FALSE

\* FilterByProtocol::matches: map_or(true, |protocol| relay.protocol == *protocol).
FilterByProtocol_matches(f, relay) ==
  IF IsSome(f.protocol) THEN relay.protocol = Unwrap(f.protocol) ELSE TRUE

\* filter.matches(&relay) on a Box<dyn Filter<Item = Relay>>.
Filter_matches(f, relay) ==
  IF f.kind = "FilterByDistance" THEN FilterByDistance_matches(f, relay)
  ELSE FilterByProtocol_matches(f, relay)

\* The Relay the loader builds of a raw entry: the distance is computed here,
\* once, from the operator's location.
Relay(raw, protocol, operator) ==
  [ip |-> raw.ip, country |-> raw.country, city |-> raw.city,
   distance |-> distance_to(operator, raw.coord),
   coord |-> raw.coord, protocol |-> protocol, is_active |-> raw.active]

\* A mutation of the test before the push: the filters are not put to the
\* relay.
Pushed_unfiltered(relay, fs) == relay.is_active

\* A mutation of the test before the push: the active flag is not looked at.
Pushed_inactive_too(relay, fs) ==
  \A k \in 1..Len(fs) : Filter_matches(fs[k], relay)

\* relay.is_active && self.filters.iter().all(|filter| filter.matches(&relay))
Pushed(relay, fs) ==
  relay.is_active /\ \A k \in 1..Len(fs) : Filter_matches(fs[k], relay)

\* The loop of load_remote over the relays of one protocol's section.
RECURSIVE SectionResults(_, _, _, _)
SectionResults(section, protocol, operator, fs) ==
  IF section = <<>> THEN <<>>
  ELSE LET relay == Relay(section[1], protocol, operator)
           rest  == SectionResults(Tail(section), protocol, operator, fs)
       IN  IF Pushed(relay, fs) THEN <<relay>> \o rest ELSE rest

\* The loops of load_local: the entries in the order of the file, those
\* without a protocol being passed over.
RECURSIVE LocalResults(_, _, _)
LocalResults(entries, operator, fs) ==
  IF entries = <<>> THEN <<>>
  ELSE LET protocol == resolve_protocol(entries[1].endpoint_data)
           rest     == LocalResults(Tail(entries), operator, fs)
       IN  IF IsSome(protocol) /\ Pushed(Relay(entries[1], Unwrap(protocol), operator), fs)
           THEN <<Relay(entries[1], Unwrap(protocol), operator)>> \o rest
           ELSE rest

\* The section of the API's answer that lists the relays of one protocol.
Section(entries, endpoint) ==
  SelectSeq(entries, LAMBDA e : e.endpoint_data = endpoint)

\* The loops of load_remote: the OpenVPN relays, then the WireGuard ones.
RemoteResults(entries, operator, fs) ==
  SectionResults(Section(entries, "openvpn"), "OpenVPN", operator, fs)
    \o SectionResults(Section(entries, "wireguard"), "WireGuard", operator, fs)

VARIABLES
  stage,      \* position of app::run
  location,   \* the operator's location (a Coord)
  data,       \* what the relay file, or the API, lists
  load_filters, \* RelaysLoader.filters
  relays,     \* the candidate relays returned by the loader
  count,      \* RelayPingerConfig.count
  filters,    \* RelaysPinger.filters: one Option<Duration> per FilterByRTT
  tasks,      \* RelaysPinger.tasks: the spawned probers, by relay ip
  pc,         \* per prober: position of RelayPinger::execute
  attempts,   \* per prober: connection attempts started so far
  timings,    \* per prober: the local `timings` vector
  outcomes,   \* per prober: what each attempt resolved to, in order
  completed,  \* the probers in the order in which their tasks ended
  idx,        \* ping(): index of the task being awaited
  results,    \* ping(): the local `results` vector
  ret,        \* ping(): the value returned
  cli_sort_by,\* cli.sort_by: Option<SortBy>
  sort_by,    \* Reporter.sort_by
  report,     \* Reporter.timings
  now,        \* the time
  interval,   \* RelayPingerConfig.interval
  timeout,    \* RelayPingerConfig.timeout
  deadline,   \* per prober: when the next tick of its interval is due
  starts      \* per prober: when each attempt began, and when its tick was due

loader == <<location, data, load_filters>>

clock == <<now, interval, timeout, deadline, starts>>

vars == <<stage, relays, count, filters, tasks, pc, attempts, timings, outcomes,
          completed, idx, results, ret, cli_sort_by, sort_by, report, loader, clock>>

\* Nothing is spawned, joined or reported, and the clock stands at 0.
Unstarted ==
  /\ count = 0
  /\ filters = <<>>
  /\ tasks = <<>>
  /\ pc = [i \in Ips |-> "unspawned"]
  /\ attempts = [i \in Ips |-> 0]
  /\ timings = [i \in Ips |-> <<>>]
  /\ outcomes = [i \in Ips |-> <<>>]
  /\ completed = <<>>
  /\ idx = 1
  /\ results = <<>>
  /\ ret = [tag |-> "Pending", value |-> <<>>]
  /\ cli_sort_by = None
  /\ sort_by = "MedianRTT"
  /\ report = <<>>
  /\ now = 0
  /\ interval = 0
  /\ timeout = 0
  /\ deadline = [i \in Ips |-> 0]
  /\ starts = [i \in Ips |-> <<>>]

\* The raw entry of a relay of the catalog.
RawOf(relay) == CHOOSE raw \in RawCatalog : raw.ip = relay.ip

\* The loader has returned: the operator is at the origin, the relay file
\* lists the relays that were loaded, and the filters are those of the
\* defaults of the command line (500 km, any protocol).
Init ==
  /\ stage = "loaded"
  /\ relays \in RelayLists
  /\ location = 0
  /\ data = [k \in 1..Len(relays) |-> RawOf(relays[k])]
  /\ load_filters = <<FilterByDistance_new(FilterCoord(0), 500), FilterByProtocol_new(None)>>
  /\ Unstarted

\* The operator's location is known, nothing is loaded.
InitLoad ==
  /\ stage = "located"
  /\ location \in Locations
  /\ data \in DataLists
  /\ load_filters = <<>>
  /\ relays = <<>>
  /\ Unstarted

\* app::run builds the loader with the two Load-stage filters, from
\* cli.distance and cli.protocol.
NewLoader ==
  /\ stage = "located"
  /\ \E d \in Distances, p \in {None} \cup { Some(x) : x \in Protocol } :
       load_filters' = <<FilterByDistance_new(FilterCoord(location), d),
                         FilterByProtocol_new(p)>>
  /\ stage' = "loader"
  /\ UNCHANGED <<location, data, relays, count, filters, tasks, pc, attempts, timings,
                 outcomes, completed, idx, results, ret, cli_sort_by, sort_by, report,
                 clock>>

\* What load() leaves alone.
LoadFrame ==
  UNCHANGED <<loader, count, filters, tasks, pc, attempts, timings, outcomes,
              completed, idx, results, ret, cli_sort_by, sort_by, report, clock>>

\* load(), the relay file being there.
load_local ==
  /\ stage = "loader"
  /\ relays' = LocalResults(data, location, load_filters)
  /\ stage' = "loaded"
  /\ LoadFrame

\* load(), the relay file not being there.
load_remote ==
  /\ stage = "loader"
  /\ relays' = RemoteResults(data, location, load_filters)
  /\ stage' = "loaded"
  /\ LoadFrame

\* load() returns an error (the file cannot be read or parsed, the API does
\* not answer, a field is missing) and `?` ends app::run.
LoadFailed ==
  /\ stage = "loader"
  /\ stage' = "load_failed"
  /\ relays' = relays
  /\ LoadFrame

NextLoad == NewLoader \/ load_local \/ load_remote \/ LoadFailed

SpecLoad == InitLoad /\ [][NextLoad]_vars

\* ------------------------------------------------------------- statistics
RECURSIVE Sum(_)
Sum(s) == IF s = <<>> THEN 0 ELSE s[1] + Sum(Tail(s))

\* Vec<Duration>::sort: ascending order of the durations.
RECURSIVE InsertDuration(_, _)
InsertDuration(x, s) ==
  IF s = <<>> THEN <<x>>
  ELSE IF x < s[1] THEN <<x>> \o s
  ELSE <<s[1]>> \o InsertDuration(x, Tail(s))

RECURSIVE SortDurations(_)
SortDurations(s) ==
  IF s = <<>> THEN <<>>
  ELSE InsertDuration(s[Len(s)], SortDurations(SubSeq(s, 1, Len(s) - 1)))

RelayTimed(relay, ts) == [relay |-> relay, timings |-> ts]

\* A mutation of rtt_mean: the divisor is off by one.
rtt_mean_off_by_one(t) ==
  IF Len(t.timings) = 0 THEN None
  ELSE Some(Sum(t.timings) \div (Len(t.timings) + 1))

\* RelayTimed::rtt_mean: the sum divided by the length, Duration / u32
\* truncating.
rtt_mean(t) ==
  IF Len(t.timings) = 0 THEN None
  ELSE Some(Sum(t.timings) \div Len(t.timings))

\* A mutation of rtt_median: the clone is not sorted.
rtt_median_unsorted(t) ==
  IF Len(t.timings) = 0 THEN None
  ELSE LET sorted == t.timings
           len    == Len(t.timings)
           middle == len \div 2
       IN  IF len % 2 = 0
           THEN Some((sorted[middle] + sorted[middle + 1]) \div 2)
           ELSE Some(sorted[middle + 1])

\* RelayTimed::rtt_median.  Vec indices are 0-based in the source, 1-based
\* here: timings[middle - 1] and timings[middle] are sorted[middle] and
\* sorted[middle + 1].
rtt_median(t) ==
  IF Len(t.timings) = 0 THEN None
  ELSE LET sorted == SortDurations(t.timings)
           len    == Len(t.timings)
           middle == len \div 2
       IN  IF len % 2 = 0
           THEN Some((sorted[middle] + sorted[middle + 1]) \div 2)
           ELSE Some(sorted[middle + 1])

\* RelayTimed::rtt, which FilterByRTT::matches calls: the relay's mean
\* latency.
rtt(t) == rtt_mean(t)

\* ---------------------------------------------------------------- filters
\* A mutation of FilterByRTT::matches: no data defaults to true.
FilterByRTT_matches_admit_no_data(f, t) ==
  IF ~IsSome(f) THEN TRUE
  ELSE IF IsSome(rtt(t)) THEN Unwrap(rtt(t)) <= Unwrap(f) ELSE TRUE

\* FilterByRTT::matches, f being the filter's `rtt` field.
FilterByRTT_matches(f, t) ==
  IF ~IsSome(f) THEN TRUE
  ELSE IF IsSome(rtt(t)) THEN Unwrap(rtt(t)) <= Unwrap(f) ELSE FALSE

\* A mutation of the conjunction in ping(): the filters are not consulted.
AllMatch_unfiltered(fs, t) == TRUE

\* self.filters.iter().all(|filter| filter.matches(&timings))
AllMatch(fs, t) == \A k \in 1..Len(fs) : FilterByRTT_matches(fs[k], t)

\* ----------------------------------------------------------------- prober
\* A mutation of the loop bound: 0..=count instead of 1..=count.
LoopContinues_one_more(a, c) == a <= c

\* A mutation of the loop: its body runs once before the count is looked at.
LoopContinues_at_least_once(a, c) == a < c \/ a = 0

\* for _ in 1..=self.config.count, a being the iterations begun so far.
LoopContinues(a, c) == a < c

\* A mutation of the Ok(Ok(..)) arm: the newest timing goes first.
OnConnected_prepend(ts, d) == <<d>> \o ts

\* The Ok(Ok(..)) arm: timings.push(elapsed).
OnConnected(ts, d) == Append(ts, d)

\* A mutation of the Ok(Err(..)) arm: a failed attempt records a zero.
OnRefused_push_zero(ts) == Append(ts, 0)

\* The Ok(Err(..)) arm: continue.
OnRefused(ts) == ts

\* The Err(..) arm (the timeout elapsed): continue.
OnTimeout(ts) == ts

\* A mutation of `continue`: a failed attempt leaves the loop.
AfterFailure_break(a, c) == "done"

\* A mutation of `continue`: the error of a failed attempt is unwrapped.
AfterFailure_panic(a, c) == "panicked"

\* Where execute() stands after `continue` in the Ok(Err(..)) and Err(..)
\* arms: at the next tick, or past the loop, where it builds the RelayTimed
\* and the task ends.
AfterFailure(a, c) == IF LoopContinues(a, c) THEN "tick" ELSE "done"

\* Where execute() stands after the Ok(Ok(..)) arm.
AfterSuccess(a, c) == IF LoopContinues(a, c) THEN "tick" ELSE "done"

\* A mutation of the loop body: the connection attempt is not awaited, so
\* that the next tick is awaited while the attempt is in flight.
AwaitsTick_while_connecting(p) == p \in {"tick", "connect"}

\* Whether execute() stands at interval.tick().await: the loop body awaits
\* the attempt of one iteration to its end before the next iteration.
AwaitsTick(p) == p = "tick"

\* A mutation of the attempt: the connection is awaited without a timeout.
HasTimeout_none == FALSE

\* Whether the attempt is bounded: time::timeout(self.config.timeout, stream).
HasTimeout == TRUE

\* interval.tick().await has returned: the attempt begins.
BeginAttempt(i) ==
  /\ AwaitsTick(pc[i])
  /\ LoopContinues(attempts[i], count)
  /\ pc' = [pc EXCEPT ![i] = "connect"]
  /\ attempts' = [attempts EXCEPT ![i] = @ + 1]
  /\ UNCHANGED <<stage, relays, count, filters, tasks, timings, outcomes, completed,
                 idx, results, ret, cli_sort_by, sort_by, report, loader>>

\* interval.tick().await returns and the attempt begins, the time at which
\* it does being left out.
Tick(i) == BeginAttempt(i) /\ UNCHANGED clock

\* The loop is over before its first iteration (count = 0).
NoTick(i) ==
  /\ pc[i] = "tick"
  /\ ~LoopContinues(attempts[i], count)
  /\ pc' = [pc EXCEPT ![i] = "done"]
  /\ completed' = Append(completed, i)
  /\ UNCHANGED <<stage, relays, count, filters, tasks, attempts, timings, outcomes,
                 idx, results, ret, cli_sort_by, sort_by, report,
                 loader, clock>>

Resolved(i, kind, d, ts, next) ==
  /\ pc[i] = "connect"
  /\ timings' = [timings EXCEPT ![i] = ts]
  /\ outcomes' = [outcomes EXCEPT ![i] = Append(@, [kind |-> kind, elapsed |-> d])]
  /\ pc' = [pc EXCEPT ![i] = next]
  /\ completed' = IF next = "tick" THEN completed ELSE Append(completed, i)
  /\ UNCHANGED <<stage, relays, count, filters, tasks, attempts,
                 idx, results, ret, cli_sort_by, sort_by, report,
                 loader, clock>>

\* The connection is established before the timeout.
Connected(i) ==
  \E d \in Durations :
    Resolved(i, "connected", d, OnConnected(timings[i], d), AfterSuccess(attempts[i], count))

\* The connection attempt fails before the timeout.
Refused(i) ==
  Resolved(i, "refused", 0, OnRefused(timings[i]), AfterFailure(attempts[i], count))

\* The timeout elapses first.
TimedOut(i) ==
  /\ HasTimeout
  /\ Resolved(i, "timeout", 0, OnTimeout(timings[i]), AfterFailure(attempts[i], count))

\* The task ends without a value (it panicked or was cancelled), so that
\* awaiting its JoinHandle yields a JoinError.  Its locals are dropped.
Crash(i) ==
  /\ pc[i] \in {"tick", "connect"}
  /\ pc' = [pc EXCEPT ![i] = "panicked"]
  /\ attempts' = [attempts EXCEPT ![i] = 0]
  /\ timings' = [timings EXCEPT ![i] = <<>>]
  /\ outcomes' = [outcomes EXCEPT ![i] = <<>>]
  /\ completed' = Append(completed, i)
  /\ UNCHANGED <<stage, relays, count, filters, tasks,
                 idx, results, ret, cli_sort_by, sort_by, report,
                 loader, clock>>

\* ----------------------------------------------------------- orchestrator
\* app::run gives up when the loader found no relay.
Bail ==
  /\ stage = "loaded"
  /\ relays = <<>>
  /\ stage' = "bailed"
  /\ UNCHANGED <<relays, count, filters, tasks, pc, attempts, timings, outcomes,
                 completed, idx, results, ret, cli_sort_by, sort_by, report,
                 loader, clock>>

\* A mutation of RelaysPinger::new: every relay is given two probers.
SpawnAll_twice(rs) == rs \o rs

\* relays.into_iter().map(|relay| tokio::spawn(..)).collect(): one task per
\* relay, in the order of the relays.
SpawnAll(rs) == rs

\* A mutation of RelaysPinger::new: the tasks are started one by one as they
\* are awaited, so that only the first one runs after the construction.
Started_first_only(rs) == { rs[k].ip : k \in 1..1 }

\* The relays whose probers run once RelaysPinger::new has returned:
\* tokio::spawn starts the task it is given, without it being awaited.
Started(rs) == { rs[k].ip : k \in 1..Len(rs) }

\* app::run builds the config from cli.count and the only Ping-stage filter
\* from cli.rtt, and RelaysPinger::new spawns one prober per relay, in the
\* order of the relays.
NewPinger ==
  /\ stage = "loaded"
  /\ relays # <<>>
  /\ \E c \in 0..MaxCount, f \in {None} \cup { Some(d) : d \in Durations } :
       /\ Len(relays) * c <= MaxAttempts
       /\ count' = c
       /\ filters' = <<f>>
  /\ tasks' = SpawnAll(relays)
  /\ pc' = [i \in Ips |-> IF i \in Started(relays) THEN "tick" ELSE pc[i]]
  /\ stage' = "pinging"
  /\ UNCHANGED <<relays, attempts, timings, outcomes, completed, idx, results, ret,
                 cli_sort_by, sort_by, report, loader>>

\* RelaysPinger::new, the interval and the timeout being left out.
New == NewPinger /\ UNCHANGED clock

\* A mutation of the loop over the tasks: the task that ended first among
\* those not yet awaited is taken next, whatever its place in `tasks`.
RECURSIVE FirstCompleted(_, _)
FirstCompleted(done, awaited) ==
  IF done = <<>> THEN 0
  ELSE IF done[1] \in awaited THEN FirstCompleted(Tail(done), awaited)
  ELSE done[1]

NextTask_by_completion ==
  LET awaited == { results[k].relay.ip : k \in 1..Len(results) }
      first   == FirstCompleted(completed, awaited)
  IN  IF first = 0 THEN tasks[idx]
      ELSE CHOOSE t \in { tasks[k] : k \in 1..Len(tasks) } : t.ip = first

\* A mutation of the loop over the tasks: the handles are taken from the end.
NextTask_reversed == tasks[Len(tasks) + 1 - idx]

\* for task in self.tasks: the handle ping() awaits next.
NextTask == tasks[idx]

\* A mutation of the `?` on a failed join: the task is skipped.
JoinFailed_skip ==
  /\ results' = results
  /\ idx' = idx + 1
  /\ IF idx = Len(tasks)
     THEN /\ ret' = [tag |-> "Ok", value |-> results]
          /\ stage' = "pinged"
     ELSE /\ ret' = ret
          /\ stage' = stage

\* task.await gave Err: map_err and `?` return PingerAwaitFailed at once;
\* the local `results` is dropped.
JoinFailed ==
  /\ results' = <<>>
  /\ idx' = idx
  /\ ret' = [tag |-> "Err", value |-> "PingerAwaitFailed"]
  /\ stage' = "failed"

\* task.await gave Ok(timings): the record is pushed when every filter
\* matches; after the last task ping() returns Ok(results).
JoinOk(t) ==
  /\ results' = IF AllMatch(filters, t) THEN Append(results, t) ELSE results
  /\ idx' = idx + 1
  /\ IF idx = Len(tasks)
     THEN /\ ret' = [tag |-> "Ok", value |-> results']
          /\ stage' = "pinged"
     ELSE /\ ret' = ret
          /\ stage' = stage

\* A mutation of the failed join: the probers still running are aborted.
ProbersAfterJoinFailure_abort(p) ==
  [i \in DOMAIN p |-> IF p[i] \in {"tick", "connect"} THEN "panicked" ELSE p[i]]

\* What returning the error does to the probers: the remaining JoinHandles
\* are dropped, which detaches their tasks and leaves them running.
ProbersAfterJoinFailure(p) == p

\* One iteration of the loop of ping(): the awaited task has ended.
Join ==
  /\ stage = "pinging"
  /\ idx <= Len(tasks)
  /\ LET relay == NextTask
     IN  /\ pc[relay.ip] \in {"done", "panicked"}
         /\ IF pc[relay.ip] = "done"
            THEN JoinOk(RelayTimed(relay, timings[relay.ip]))
            ELSE JoinFailed
         /\ pc' = IF pc[relay.ip] = "done" THEN pc ELSE ProbersAfterJoinFailure(pc)
  /\ UNCHANGED <<relays, count, filters, tasks, attempts, timings, outcomes,
                 completed, cli_sort_by, sort_by, report,
                 loader, clock>>

\* --------------------------------------------------------------- reporter
CmpInt(a, b) == IF a < b THEN "Less" ELSE IF a > b THEN "Greater" ELSE "Equal"

\* String::cmp: lexicographic.
RECURSIVE CmpStr(_, _)
CmpStr(a, b) ==
  IF a = <<>> /\ b = <<>> THEN "Equal"
  ELSE IF a = <<>> THEN "Less"
  ELSE IF b = <<>> THEN "Greater"
  ELSE IF a[1] # b[1] THEN CmpInt(a[1], b[1])
  ELSE CmpStr(Tail(a), Tail(b))

\* Option<Duration>::cmp, as derived: None is less than every Some.
CmpOption(a, b) ==
  IF ~IsSome(a) /\ ~IsSome(b) THEN "Equal"
  ELSE IF ~IsSome(a) THEN "Less"
  ELSE IF ~IsSome(b) THEN "Greater"
  ELSE CmpInt(Unwrap(a), Unwrap(b))

\* A mutation of the closure: its operands are swapped.
Compare_swapped(sb, a, b) ==
  CASE sb = "Country"   -> CmpStr(b.relay.country, a.relay.country)
    [] sb = "City"      -> CmpStr(b.relay.city, a.relay.city)
    [] sb = "MeanRTT"   -> CmpOption(rtt_mean(b), rtt_mean(a))
    [] sb = "MedianRTT" -> CmpOption(rtt_median(b), rtt_median(a))
    [] sb = "Distance"  -> CmpInt(b.relay.distance, a.relay.distance)

\* The closure handed to sort_by.
Compare(sb, a, b) ==
  CASE sb = "Country"   -> CmpStr(a.relay.country, b.relay.country)
    [] sb = "City"      -> CmpStr(a.relay.city, b.relay.city)
    [] sb = "MeanRTT"   -> CmpOption(rtt_mean(a), rtt_mean(b))
    [] sb = "MedianRTT" -> CmpOption(rtt_median(a), rtt_median(b))
    [] sb = "Distance"  -> CmpInt(a.relay.distance, b.relay.distance)

\* A mutation of the sort: x goes before the elements it compares equal to.
RECURSIVE Insert_before_equal(_, _, _)
Insert_before_equal(sb, x, s) ==
  IF s = <<>> THEN <<x>>
  ELSE IF Compare(sb, s[1], x) # "Less" THEN <<x>> \o s
  ELSE <<s[1]>> \o Insert_before_equal(sb, x, Tail(s))

\* slice::sort_by is a stable sort: x goes after every element that does
\* not compare greater than it.
RECURSIVE Insert(_, _, _)
Insert(sb, x, s) ==
  IF s = <<>> THEN <<x>>
  ELSE IF Compare(sb, s[1], x) = "Greater" THEN <<x>> \o s
  ELSE <<s[1]>> \o Insert(sb, x, Tail(s))

RECURSIVE SortRecords(_, _)
SortRecords(sb, s) ==
  IF s = <<>> THEN <<>>
  ELSE Insert(sb, s[Len(s)], SortRecords(sb, SubSeq(s, 1, Len(s) - 1)))

\* cli.sort_by.unwrap_or_default(): SortBy's #[default] is MedianRTT.
UnwrapOrDefault(o) == IF IsSome(o) THEN Unwrap(o) ELSE "MedianRTT"

\* app::run on Ok: Reporter::new(timings, ...), then reporter.sort().
Report ==
  /\ stage = "pinged"
  /\ \E o \in {None} \cup { Some(sb) : sb \in SortBy } :
       /\ cli_sort_by' = o
       /\ sort_by' = UnwrapOrDefault(o)
       /\ report' = SortRecords(UnwrapOrDefault(o), ret.value)
  /\ stage' = "reported"
  /\ UNCHANGED <<relays, count, filters, tasks, pc, attempts, timings, outcomes,
                 completed, idx, results, ret,
                 loader, clock>>

Next ==
  \/ Bail
  \/ New
  \/ \E i \in Ips : Tick(i)
  \/ \E i \in Ips : NoTick(i)
  \/ \E i \in Ips : Connected(i)
  \/ \E i \in Ips : Refused(i)
  \/ \E i \in Ips : TimedOut(i)
  \/ \E i \in Ips : Crash(i)
  \/ Join
  \/ Report

Spec == Init /\ [][Next]_vars

\* The scheduling the claims about termination rest on: the runtime polls
\* every task that can go on, the interval timer and the timeout timer fire,
\* and ping() is resumed when the task it awaits has ended.  Nothing is
\* assumed of the network: no connection has to be established or refused.
FairSpec ==
  /\ Spec
  /\ \A i \in Ips : WF_vars(Tick(i)) /\ WF_vars(NoTick(i)) /\ WF_vars(TimedOut(i))
  /\ WF_vars(Join)

\* ------------------------------------------------------------------ clock
\* tokio's Interval takes a tick for missed only when it comes more than
\* 5 ms late; the unit of time is these 5 ms.
Tolerance == 1

\* A mutation of the missed-tick policy: MissedTickBehavior::Burst, the
\* default, which keeps the ticks at multiples of the period.
missed_tick_behavior_Burst(due, at, period) == due + period

\* interval.set_missed_tick_behavior(MissedTickBehavior::Delay): after a
\* missed tick the next one is due one period after the moment the missed one
\* was taken.
missed_tick_behavior(due, at, period) == at + period

\* When the tick after the one due at `due` and taken at `at` is due.
NextDeadline(due, at, period) ==
  IF at > due + Tolerance THEN missed_tick_behavior(due, at, period)
  ELSE due + period

\* let start = Instant::now() of the attempt in flight.
LastStart(i) == starts[i][Len(starts[i])].at

\* RelaysPinger::new with the interval and the timeout of the config; each
\* prober creates its interval, whose first tick is due at once.  (A period
\* of 0 makes time::interval panic, which ends the task as in Crash.)
TimedNew ==
  /\ NewPinger
  /\ \E p \in 1..MaxInterval, t \in 1..MaxTimeout :
       /\ interval' = p
       /\ timeout' = t
  /\ deadline' = [i \in Ips |-> now]
  /\ UNCHANGED <<now, starts>>

\* interval.tick().await returns, at its deadline or later, and the attempt
\* begins.
TimedTick(i) ==
  /\ BeginAttempt(i)
  /\ now >= deadline[i]
  /\ starts' = [starts EXCEPT ![i] = Append(@, [at |-> now, due |-> deadline[i]])]
  /\ deadline' = [deadline EXCEPT ![i] = NextDeadline(@, now, interval)]
  /\ UNCHANGED <<now, interval, timeout>>

\* The connection is established within the timeout: start.elapsed() is
\* pushed.
TimedConnected(i) ==
  /\ pc[i] = "connect"
  /\ now - LastStart(i) <= timeout
  /\ Resolved(i, "connected", now - LastStart(i),
              OnConnected(timings[i], now - LastStart(i)),
              AfterSuccess(attempts[i], count))

\* The connection attempt fails within the timeout.
TimedRefused(i) ==
  /\ pc[i] = "connect"
  /\ now - LastStart(i) <= timeout
  /\ Refused(i)

\* The timeout has elapsed.
TimedTimedOut(i) ==
  /\ pc[i] = "connect"
  /\ now - LastStart(i) >= timeout
  /\ TimedOut(i)

\* Time passes while a prober runs, up to MaxTime; it does not pass beyond
\* the timeout of an attempt in flight.
Advance ==
  /\ now < MaxTime
  /\ \E i \in Ips : pc[i] \in {"tick", "connect"}
  /\ \A i \in Ips : pc[i] = "connect" => now - LastStart(i) < timeout
  /\ now' = now + 1
  /\ UNCHANGED <<stage, relays, count, filters, tasks, pc, attempts, timings, outcomes,
                 completed, idx, results, ret, cli_sort_by, sort_by, report, loader,
                 interval, timeout, deadline, starts>>

\* One relay was loaded, the first of the catalog.
InitTimed == Init /\ Len(relays) = 1 /\ relays[1].ip = 1

NextTimed ==
  \/ TimedNew
  \/ \E i \in Ips : TimedTick(i)
  \/ \E i \in Ips : NoTick(i)
  \/ \E i \in Ips : TimedConnected(i)
  \/ \E i \in Ips : TimedRefused(i)
  \/ \E i \in Ips : TimedTimedOut(i)
  \/ \E i \in Ips : Crash(i)
  \/ Advance
  \/ Join

\* The prober of one relay, with the time at which its steps happen.
SpecTimed == InitTimed /\ [][NextTimed]_vars

\* -------------------------------------------------------------- whole run
\* What the relay file, or the API, lists in the runs that are followed from
\* the loader to the report: a WireGuard relay, one that is not active and
\* an OpenVPN relay; or a bridge, a WireGuard relay and one that is not
\* active.
RunData ==
  { <<RawOf([ip |-> 1]), RawOf([ip |-> 5]), RawOf([ip |-> 2])>>,
    <<RawOf([ip |-> 6]), RawOf([ip |-> 3]), RawOf([ip |-> 5])>> }

\* The operator's location is known, nothing is loaded.
InitRun ==
  /\ stage = "located"
  /\ location \in Locations
  /\ data \in RunData
  /\ load_filters = <<>>
  /\ relays = <<>>
  /\ Unstarted

NextRun == NextLoad \/ Next

\* app::run from the loader to the report.
SpecRun == InitRun /\ [][NextRun]_vars

\* ------------------------------------------------------------- properties
Spawned == { tasks[k].ip : k \in 1..Len(tasks) }

\* The records ping() holds or has returned, and those the reporter holds.
Yielded ==
  { results[k] : k \in 1..Len(results) }
    \cup (IF ret.tag = "Ok" THEN { ret.value[k] : k \in 1..Len(ret.value) } ELSE {})
    \cup { report[k] : k \in 1..Len(report) }

\* The elapsed times of the attempts of a log that connected, in the order
\* of the attempts.
RECURSIVE ConnectedElapsed(_)
ConnectedElapsed(log) ==
  IF log = <<>> THEN <<>>
  ELSE IF log[1].kind = "connected"
       THEN <<log[1].elapsed>> \o ConnectedElapsed(Tail(log))
       ELSE ConnectedElapsed(Tail(log))

\* C1: at every moment a prober holds at most `count` timings, and so does
\* every RelayTimed that was yielded, whatever the attempts resolved to.
C1_TimingsWithinCount ==
  /\ \A i \in Ips : Len(timings[i]) <= count
  /\ \A t \in Yielded : Len(t.timings) <= count

\* C1 witness: a prober ended with as many timings as the count allows,
\* another one of the batch with fewer, after a timeout.
C1_Witness ==
  \E i, j \in Spawned :
    /\ pc[i] = "done" /\ pc[j] = "done" /\ count = 2
    /\ Len(timings[i]) = count
    /\ Len(timings[j]) < count
    /\ \E k \in 1..Len(outcomes[j]) : outcomes[j][k].kind = "timeout"

\* C2: a prober never starts more than `count` attempts, it is between two
\* attempts only while attempts remain, and it ends only once exactly
\* `count` attempts have been started and have resolved: no refusal and no
\* timeout makes it end earlier.
C2_ExactlyCountAttempts ==
  \A i \in Spawned :
    /\ attempts[i] <= count
    /\ pc[i] = "connect" => Len(outcomes[i]) = attempts[i] - 1
    /\ pc[i] = "tick" => Len(outcomes[i]) = attempts[i] /\ (attempts[i] < count \/ count = 0)
    /\ pc[i] = "done" => attempts[i] = count /\ Len(outcomes[i]) = count

\* C2 witness: a prober ended after three attempts, none of which connected.
C2_Witness ==
  \E i \in Spawned :
    /\ pc[i] = "done" /\ count = 3 /\ attempts[i] = 3
    /\ outcomes[i][1].kind = "refused"
    /\ outcomes[i][2].kind = "timeout"
    /\ outcomes[i][3].kind = "refused"

\* C3: the timings of a prober, and of every RelayTimed that was yielded,
\* are the elapsed times of the attempts that connected, one each, in the
\* order of the attempts; refusals and timeouts leave no trace in them.
C3_TimingsAreConnectedAttempts ==
  /\ \A i \in Ips : timings[i] = ConnectedElapsed(outcomes[i])
  /\ \A t \in Yielded : t.timings = ConnectedElapsed(outcomes[t.relay.ip])

\* C3 witness: a slow connection, a refusal, then a fast connection.
C3_Witness ==
  \E i \in Spawned :
    /\ pc[i] = "done"
    /\ timings[i] = <<3, 1>>
    /\ outcomes[i][2].kind = "refused"

\* The record a prober's task yields when it ends.
RecordOf(k) == RelayTimed(tasks[k], timings[tasks[k].ip])

\* The mean of a timing sequence is defined and at most T.
MeanAtMost(ts, T) == ts # <<>> /\ Sum(ts) \div Len(ts) <= T

\* C4: for the record of every prober that ended, the configured RTT filter
\* matches exactly when no threshold is configured, or one is configured
\* and the record's mean is defined and at most the threshold; a record
\* without timings is admitted without a threshold and rejected with one.
C4_RttFilterAdmission ==
  \A k \in 1..Len(tasks) :
    pc[tasks[k].ip] = "done" =>
      \A n \in 1..Len(filters) :
        LET f == filters[n]
            t == RecordOf(k)
        IN  /\ FilterByRTT_matches(f, t)
                <=> (f = None \/ (f # None /\ MeanAtMost(t.timings, Unwrap(f))))
            /\ t.timings = <<>> => (FilterByRTT_matches(f, t) <=> f = None)

\* C4 witness: with a threshold configured ping() has joined a prober
\* without any timing and left it out, and has let in one whose mean equals
\* the threshold.
C4_Witness ==
  /\ ret.tag = "Ok" /\ Len(tasks) = 2 /\ filters = <<Some(2)>>
  /\ timings[tasks[1].ip] = <<>> /\ count = 2
  /\ timings[tasks[2].ip] = <<1, 3>>
  /\ ret.value = <<RecordOf(2)>>

\* C5: the records ping() has collected are exactly the records of the
\* tasks joined so far that every filter matches, each once; hence, when
\* ping() returns Ok, exactly the admitted records of all the candidate
\* relays.
C5_ResultIsAdmittedSubset ==
  LET Admitted(n) ==
        { RecordOf(k) : k \in { j \in 1..n :
            \A m \in 1..Len(filters) : FilterByRTT_matches(filters[m], RecordOf(j)) } }
      AsSet(s) == { s[k] : k \in 1..Len(s) }
  IN  /\ stage = "pinging" =>
           /\ AsSet(results) = Admitted(idx - 1)
           /\ Len(results) = Cardinality(Admitted(idx - 1))
      /\ ret.tag = "Ok" =>
           /\ AsSet(ret.value) = Admitted(Len(tasks))
           /\ Len(ret.value) = Cardinality(Admitted(Len(tasks)))

\* C5 witness: ping() returned one of two records, the other one being
\* slower than the threshold.
C5_Witness ==
  /\ ret.tag = "Ok" /\ Len(tasks) = 2 /\ filters = <<Some(1)>>
  /\ timings[tasks[1].ip] = <<1, 1>>
  /\ timings[tasks[2].ip] = <<2, 3>>
  /\ ret.value = <<RecordOf(1)>>

\* The place of a relay in a sequence of ips, 0 when it is not there.
Pos(s, i) == IF \E k \in 1..Len(s) : s[k] = i
             THEN CHOOSE k \in 1..Len(s) : s[k] = i ELSE 0

TaskIps == [k \in 1..Len(tasks) |-> tasks[k].ip]

\* C6 as stated: of two records ping() returns, the one whose prober ended
\* first comes first.
C6_CompletionOrder ==
  ret.tag = "Ok" =>
    \A x, y \in 1..Len(ret.value) :
      Pos(completed, ret.value[x].relay.ip) < Pos(completed, ret.value[y].relay.ip)
        => x < y

\* C6 amended: the records ping() collects and returns are in the order in
\* which their relays were handed to RelaysPinger::new, whatever the order
\* in which the probers ended.
C6_SubmissionOrder ==
  LET InTaskOrder(s) ==
        \A x, y \in 1..Len(s) :
          x < y => Pos(TaskIps, s[x].relay.ip) < Pos(TaskIps, s[y].relay.ip)
  IN  /\ InTaskOrder(results)
      /\ ret.tag = "Ok" => InTaskOrder(ret.value)

\* C6 witness: the second relay's prober ended first, both records were
\* admitted, and the first relay's record is returned first.
C6_Witness ==
  /\ ret.tag = "Ok" /\ Len(tasks) = 2 /\ count > 0
  /\ completed = <<tasks[2].ip, tasks[1].ip>>
  /\ ret.value = <<RecordOf(1), RecordOf(2)>>

\* C7: ping() goes on only past tasks that yielded a record and returns Ok
\* only when every task did; once the join of a task has failed, ping() has
\* returned PingerAwaitFailed, nothing is left of the records collected
\* before, and nothing is reported.
C7_JoinFailureIsFatal ==
  /\ \A k \in 1..Len(tasks) : k < idx => pc[tasks[k].ip] = "done"
  /\ ret.tag = "Ok" => \A k \in 1..Len(tasks) : pc[tasks[k].ip] = "done"
  /\ (stage = "failed" \/ ret.tag = "Err") =>
       /\ stage = "failed"
       /\ ret = [tag |-> "Err", value |-> "PingerAwaitFailed"]
       /\ pc[tasks[idx].ip] = "panicked"
       /\ results = <<>>
       /\ report = <<>>

\* C7 witness: the first prober ended with a record that every filter
\* matches and was joined, then the join of the second one failed.
C7_Witness ==
  /\ stage = "failed" /\ idx = 2
  /\ pc[tasks[1].ip] = "done"
  /\ timings[tasks[1].ip] = <<1, 1>>
  /\ AllMatch(filters, RecordOf(1))
  /\ filters = <<Some(1)>>

NoneConnected(i) == \A k \in 1..Len(outcomes[i]) : outcomes[i][k].kind # "connected"

\* C8, in each state: ping() has failed only if the task it was awaiting
\* ended without a value; a prober that ended with no attempt connected
\* holds an empty timing sequence; and once every task has yielded a record
\* and has been joined, ping() has returned Ok.
C8_State ==
  /\ ret.tag = "Err" => pc[tasks[idx].ip] = "panicked"
  /\ \A i \in Spawned : pc[i] = "done" /\ NoneConnected(i) => timings[i] = <<>>
  /\ (tasks # <<>> /\ idx > Len(tasks)) => ret.tag = "Ok"

\* C8, in each step: an attempt that resolves, whatever it resolves to,
\* leaves its prober waiting for the next tick or ended with its record.
C8_Step ==
  \A i \in Ips :
    Len(outcomes'[i]) = Len(outcomes[i]) + 1 => pc'[i] \in {"tick", "done"}

\* C8: refusals and timeouts alone never make ping() fail.
C8_ProbeFailuresAbsorbed == []C8_State /\ [][C8_Step]_vars

\* C8 witness: every attempt against both relays was refused or timed out,
\* and ping() returned both records, without timings.
C8_Witness ==
  /\ ret.tag = "Ok" /\ Len(tasks) = 2 /\ count = 2
  /\ \A i \in Spawned : NoneConnected(i)
  /\ outcomes[tasks[1].ip][1].kind = "refused"
  /\ outcomes[tasks[2].ip][2].kind = "timeout"
  /\ ret.value = <<RelayTimed(tasks[1], <<>>), RelayTimed(tasks[2], <<>>)>>

\* The RTT the reporter ranks by, when it ranks by one.
RankedRtt(sb, t) == IF sb = "MeanRTT" THEN rtt_mean(t) ELSE rtt_median(t)

\* C9 as stated: once sorted by mean or by median RTT, no record without
\* an RTT stands before a record with one.
C9_UndefinedRttLast ==
  (stage = "reported" /\ sort_by \in {"MeanRTT", "MedianRTT"}) =>
    \A x, y \in 1..Len(report) :
      (IsSome(RankedRtt(sort_by, report[x])) /\ ~IsSome(RankedRtt(sort_by, report[y])))
        => x < y

\* Whether key a does not come after key b, for keys that are defined:
\* strings by their characters, durations and distances by their size.
RECURSIVE StrLeq(_, _)
StrLeq(a, b) ==
  \/ a = <<>>
  \/ /\ b # <<>>
     /\ \/ a[1] < b[1]
        \/ a[1] = b[1] /\ StrLeq(Tail(a), Tail(b))

KeyDefined(sb, t) == sb \in {"MeanRTT", "MedianRTT"} => IsSome(RankedRtt(sb, t))

KeyLeq(sb, a, b) ==
  CASE sb = "Country"  -> StrLeq(a.relay.country, b.relay.country)
    [] sb = "City"     -> StrLeq(a.relay.city, b.relay.city)
    [] sb = "Distance" -> a.relay.distance <= b.relay.distance
    [] OTHER           -> Unwrap(RankedRtt(sb, a)) <= Unwrap(RankedRtt(sb, b))

\* C10: what the reporter holds after sort() is the records ping() returned,
\* each once; the key is the one the user selected, the median RTT when none
\* was; and of two records whose key is defined the earlier one's key is not
\* the greater.
C10_SortedPermutation ==
  stage = "reported" =>
    /\ Len(report) = Len(ret.value)
    /\ \A k \in 1..Len(ret.value) :
         Cardinality({ n \in 1..Len(report) : report[n] = ret.value[k] }) = 1
    /\ sort_by = IF cli_sort_by = None THEN "MedianRTT" ELSE Unwrap(cli_sort_by)
    /\ \A x, y \in 1..Len(report) :
         (x < y /\ KeyDefined(sort_by, report[x]) /\ KeyDefined(sort_by, report[y]))
           => KeyLeq(sort_by, report[x], report[y])

\* C10 witness: no key was selected, and the record returned second, having
\* the smaller median, was moved to the front.
C10_Witness ==
  /\ stage = "reported" /\ cli_sort_by = None /\ Len(report) = 2
  /\ ret.value[1].timings = <<3, 2>>
  /\ ret.value[2].timings = <<1, 2>>
  /\ report = <<ret.value[2], ret.value[1]>>

\* Whether two records have the same key.
KeyEq(sb, a, b) ==
  CASE sb = "Country"  -> a.relay.country = b.relay.country
    [] sb = "City"     -> a.relay.city = b.relay.city
    [] sb = "Distance" -> a.relay.distance = b.relay.distance
    [] OTHER           -> RankedRtt(sb, a) = RankedRtt(sb, b)

\* The place of a record in a sequence of records.
PosRec(s, t) == CHOOSE k \in 1..Len(s) : s[k] = t

\* C11: of two records with the same key, the one ping() returned first
\* stands first after sort().
C11_SortIsStable ==
  stage = "reported" =>
    \A x, y \in 1..Len(ret.value) :
      (x < y /\ KeyEq(sort_by, ret.value[x], ret.value[y]))
        => PosRec(report, ret.value[x]) < PosRec(report, ret.value[y])

\* C11 witness: two relays of the same country, the one with the greater
\* address and the greater median first, sorted by country: they stay as
\* they were.
C11_Witness ==
  /\ stage = "reported" /\ sort_by = "Country" /\ Len(ret.value) = 2
  /\ ret.value[1].relay.ip = 4 /\ ret.value[2].relay.ip = 2
  /\ ret.value[1].timings = <<3>> /\ ret.value[2].timings = <<1>>
  /\ report = ret.value

\* The timing sequences held by the probers and by the yielded records.
TimingSeqs == { timings[i] : i \in Ips } \cup { t.timings : t \in Yielded }

\* The sum of a sequence of durations, from its last element down.
RECURSIVE Total(_)
Total(ts) == IF ts = <<>> THEN 0 ELSE Total(SubSeq(ts, 1, Len(ts) - 1)) + ts[Len(ts)]

\* C14: the mean of an empty timing sequence is undefined; the mean of n >= 1
\* timings is their sum divided by n, to the resolution of a Duration (one
\* unit here): n * mean <= sum < n * (mean + 1).
C14_MeanIsSumOverLen ==
  \A ts \in TimingSeqs :
    LET m == rtt_mean(RelayTimed(0, ts))
        n == Len(ts)
    IN  /\ n = 0 => m = None
        /\ n > 0 => /\ IsSome(m)
                    /\ n * Unwrap(m) <= Total(ts)
                    /\ Total(ts) < n * (Unwrap(m) + 1)

\* C14 witness: timings of 1, 2 and 3 units were reported, their mean being 2.
C14_Witness ==
  /\ stage = "reported" /\ Len(report) = 1
  /\ report[1].timings = <<1, 2, 3>>
  /\ rtt_mean(report[1]) = Some(2)

\* The k-th smallest of the timings, counting repetitions.
Kth(ts, k) ==
  CHOOSE v \in { ts[n] : n \in 1..Len(ts) } :
    /\ Cardinality({ n \in 1..Len(ts) : ts[n] < v }) < k
    /\ Cardinality({ n \in 1..Len(ts) : ts[n] <= v }) >= k

\* C15: the median of an empty timing sequence is undefined; that of an odd
\* number n of timings is the middle one by size, that of an even number
\* the average of the two middle ones by size (to the resolution of a
\* Duration), wherever they stand in the sequence.
C15_MedianOfSorted ==
  \A ts \in TimingSeqs :
    LET m == rtt_median(RelayTimed(0, ts))
        n == Len(ts)
    IN  /\ n = 0 => m = None
        /\ (n > 0 /\ n % 2 = 1) => m = Some(Kth(ts, n \div 2 + 1))
        /\ (n > 0 /\ n % 2 = 0) =>
             m = Some((Kth(ts, n \div 2) + Kth(ts, n \div 2 + 1)) \div 2)

\* C15 witness: of the timings 3, 1 and 2, recorded in this order, the
\* median is 2, and of 3 and 1 it is 2 as well.
C15_Witness ==
  /\ stage = "reported" /\ Len(report) = 1
  /\ report[1].timings = <<3, 1, 2>>
  /\ rtt_median(report[1]) = Some(2)
  /\ rtt_median(RelayTimed(0, <<3, 1>>)) = Some(2)

\* The attempts of a prober that were started and have not resolved.
InFlight(i) == attempts[i] - Len(outcomes[i])

\* C16: a prober never has more than one attempt in flight, and it has one
\* in flight exactly while it awaits the connection.
C16_OneAttemptInFlight ==
  \A i \in Spawned :
    /\ InFlight(i) \in {0, 1}
    /\ InFlight(i) = 1 <=> pc[i] = "connect"

\* C16 witness: the probers of two relays are in the middle of their second
\* attempts at the same time.
C16_Witness ==
  \E i, j \in Spawned :
    /\ i # j
    /\ pc[i] = "connect" /\ pc[j] = "connect"
    /\ attempts[i] = 2 /\ attempts[j] = 2

\* C18: there is one task per candidate relay, in the order of the relays;
\* no task has ended twice; a task that yielded its record did so after all
\* of its attempts had resolved; and of each relay ping() holds or returns
\* at most one record.
C18_OneProberOneRecord ==
  LET OncePerRelay(s) ==
        \A x, y \in 1..Len(s) : x # y => s[x].relay.ip # s[y].relay.ip
  IN  /\ stage \notin {"loaded", "bailed"} => tasks = relays
      /\ \A x, y \in 1..Len(completed) : x # y => completed[x] # completed[y]
      /\ \A i \in Spawned :
           pc[i] = "done" =>
             /\ Len(outcomes[i]) = count
             /\ \E x \in 1..Len(completed) : completed[x] = i
      /\ OncePerRelay(results)
      /\ ret.tag = "Ok" => OncePerRelay(ret.value)
      /\ OncePerRelay(report)

\* C18 witness: two relays, two tasks ended, two records returned.
C18_Witness ==
  /\ ret.tag = "Ok" /\ Len(relays) = 2 /\ count = 2
  /\ Len(completed) = 2
  /\ Len(ret.value) = 2

\* C19, in each state: a prober that was started and has not ended can take
\* its next step, whatever ping() has done: begin an attempt or leave the
\* loop when it awaits the tick, see the timeout elapse when it awaits the
\* connection.
C19_State ==
  \A i \in Spawned :
    /\ pc[i] = "tick" => ENABLED (Tick(i) \/ NoTick(i))
    /\ pc[i] = "connect" => ENABLED TimedOut(i)

\* C19, in each step: a step of ping() or of app::run leaves every running
\* prober where it is.
C19_Step ==
  (stage' # stage \/ idx' # idx) =>
    \A i \in Spawned : pc[i] \in {"tick", "connect"} => pc'[i] = pc[i]

C20_Terminates ==
  (stage = "pinging") ~>
    (/\ \A i \in Ips : pc[i] \notin {"tick", "connect"}
     /\ stage \in {"pinged", "failed", "reported"})

\* C20 witness: ping() returned although every attempt against one of the
\* relays ran into the timeout.
C20_Witness ==
  /\ ret.tag = "Ok" /\ Len(tasks) = 2 /\ count = 2
  /\ \A k \in 1..2 : outcomes[tasks[1].ip][k].kind = "timeout"
  /\ timings[tasks[2].ip] = <<1, 1>>

\* The relays load() builds: one of each entry that names a protocol.
Built ==
  { Relay(data[k], Unwrap(resolve_protocol(data[k].endpoint_data)), location) :
      k \in { j \in 1..Len(data) : IsSome(resolve_protocol(data[j].endpoint_data)) } }

\* The relays load() returned.
Loaded == { relays[k] : k \in 1..Len(relays) }

\* C12: once the relays are loaded with the distance threshold D, the
\* distance filter matches a relay exactly when the distance the loader
\* computed for it from the operator's location is less than D; no relay at
\* the distance D or farther is returned, and every active relay of the
\* wanted protocol that is nearer than D is.
C12_DistanceFilterStrict ==
  stage = "loaded" =>
    LET f == load_filters[1]
        D == load_filters[1].distance
    IN  /\ \A r \in Built :
             /\ FilterByDistance_matches(f, r) <=> r.distance < D
             /\ r.distance = D => ~FilterByDistance_matches(f, r) /\ r \notin Loaded
             /\ (r.is_active /\ r.distance < D /\ Filter_matches(load_filters[2], r))
                  => r \in Loaded
        /\ \A r \in Loaded : r.distance < D

\* C12 witness: the operator is 40 km from the origin and the threshold is
\* 30 km; the relay 10 km away was returned, the one 30 km away was not.
C12_Witness ==
  /\ stage = "loaded" /\ location = 40 /\ load_filters[1].distance = 30
  /\ load_filters[2].protocol = None
  /\ Len(data) = 2 /\ data[1].ip = 2 /\ data[2].ip = 3
  /\ \E r \in Built : r.ip = 2 /\ r.distance = 30 /\ r.is_active
  /\ Len(relays) = 1 /\ relays[1].ip = 3 /\ relays[1].distance = 10

\* C13: without a configured protocol the protocol filter matches every
\* relay; with one it matches exactly the relays of that protocol; and the
\* relays returned are the active ones that the distance filter matches and
\* that are of the configured protocol, if one is configured.
C13_ProtocolFilter ==
  stage = "loaded" =>
    LET f == load_filters[2]
    IN  /\ \A r \in Built :
             /\ f.protocol = None => FilterByProtocol_matches(f, r)
             /\ f.protocol # None =>
                  (FilterByProtocol_matches(f, r) <=> r.protocol = Unwrap(f.protocol))
             /\ r \in Loaded <=>
                  /\ r.is_active
                  /\ r.distance < load_filters[1].distance
                  /\ (f.protocol = None \/ r.protocol = Unwrap(f.protocol))
        /\ Loaded \subseteq Built

\* C13 witness: WireGuard is configured; of two active relays within the
\* threshold the WireGuard one was returned and the OpenVPN one was not.
C13_Witness ==
  /\ stage = "loaded" /\ location = 0 /\ load_filters[1].distance = 500
  /\ load_filters[2].protocol = Some("WireGuard")
  /\ Len(data) = 2 /\ data[1].ip = 2 /\ data[2].ip = 1
  /\ Len(relays) = 1 /\ relays[1].ip = 1 /\ relays[1].protocol = "WireGuard"

\* What Init starts from is what the loader returns.
InitIsLoadable ==
  \A rs \in RelayLists :
    rs = LocalResults([k \in 1..Len(rs) |-> RawOf(rs[k])], 0,
                      <<FilterByDistance_new(FilterCoord(0), 500), FilterByProtocol_new(None)>>)

\* The time between the starts of the attempts k and k + 1 of a prober.
Gap(i, k) == starts[i][k + 1].at - starts[i][k].at

\* C17 as stated: the starts of two consecutive attempts against one relay
\* are at least one interval apart.
C17_AtLeastIntervalApart ==
  \A i \in Spawned : \A k \in 1..(Len(starts[i]) - 1) : Gap(i, k) >= interval

\* C17 amended: the starts of two consecutive attempts against one relay are
\* at least one interval less the timer's tolerance (5 ms) apart, and at
\* least one interval apart when the earlier of them began on a missed tick,
\* that is more than the tolerance late, as after an attempt that overran
\* its interval; and no tick is due less than one interval after the one
\* before it.
C17_DelayedNotBursted ==
  \A i \in Spawned : \A k \in 1..(Len(starts[i]) - 1) :
    /\ Gap(i, k) >= interval - Tolerance
    /\ starts[i][k].at > starts[i][k].due + Tolerance => Gap(i, k) >= interval
    /\ starts[i][k + 1].due >= starts[i][k].due + interval

\* C17 witness: with an interval of 2 and a timeout of 4 the first attempt
\* ran into the timeout; the second one began at once, 2 after its tick was
\* due, and the third one an interval after the second.
C17_Witness ==
  \E i \in Spawned :
    /\ interval = 2 /\ timeout = 4 /\ count = 3
    /\ Len(outcomes[i]) >= 1 /\ outcomes[i][1].kind = "timeout"
    /\ starts[i] = <<[at |-> 0, due |-> 0], [at |-> 4, due |-> 2], [at |-> 6, due |-> 6]>>

\* C22, in each state: once RelaysPinger::new has run there is a task for
\* every relay and every one of them has been started, whether or not ping()
\* has joined any.
C22_State ==
  stage \notin {"located", "loader", "load_failed", "loaded", "bailed"} =>
    /\ Len(tasks) = Len(relays)
    /\ \A k \in 1..Len(relays) : pc[relays[k].ip] # "unspawned"

\* C22, in each step: the step of RelaysPinger::new starts the task of every
\* relay, and no other step, a join of ping() in particular, adds a task
\* or starts one.
C22_Step ==
  /\ (stage = "loaded" /\ stage' = "pinging") =>
       \A k \in 1..Len(relays) : pc'[relays[k].ip] = "tick"
  /\ stage # "loaded" =>
       /\ tasks' = tasks
       /\ \A i \in Ips : pc[i] = "unspawned" => pc'[i] = "unspawned"

\* C22: the probers are spawned by RelaysPinger::new, all of them, and
\* ping() only joins them.
C22_EagerSpawn == []C22_State /\ [][C22_Step]_vars

\* C22 witness: ping() has joined nothing yet; the prober of the second
\* relay has ended and the prober of the first one is at its second attempt.
C22_Witness ==
  /\ stage = "pinging" /\ idx = 1 /\ Len(tasks) = 2 /\ count = 2
  /\ pc[tasks[2].ip] = "done"
  /\ pc[tasks[1].ip] = "connect" /\ attempts[tasks[1].ip] = 2

\* C23: a count of 0 is accepted; with it no prober starts an attempt or can
\* take a tick, a prober at the head of its loop can leave it at once, the
\* record it yields has no timings, and what ping() returns is every record
\* when no RTT threshold is configured and no record when one is.
C23_ZeroCount ==
  (count = 0 /\ stage \in {"pinging", "pinged", "failed", "reported"}) =>
    /\ \A k \in 1..Len(tasks) :
         LET i == tasks[k].ip
         IN  /\ attempts[i] = 0 /\ outcomes[i] = <<>> /\ timings[i] = <<>>
             /\ pc[i] \in {"tick", "done", "panicked"}
             /\ pc[i] = "tick" => (ENABLED NoTick(i)) /\ ~(ENABLED Tick(i))
    /\ \A t \in Yielded : t.timings = <<>>
    /\ ret.tag = "Ok" =>
         /\ filters[1] = None => ret.value = [k \in 1..Len(tasks) |-> RelayTimed(tasks[k], <<>>)]
         /\ filters[1] # None => ret.value = <<>>

\* C23 witness: the count is 0 and a threshold is configured; both probers
\* ended without an attempt and ping() returned no record.
C23_Witness ==
  /\ stage = "pinged" /\ count = 0 /\ Len(tasks) = 2 /\ filters = <<Some(3)>>
  /\ \A k \in 1..2 : pc[tasks[k].ip] = "done" /\ attempts[tasks[k].ip] = 0
  /\ ret = [tag |-> "Ok", value |-> <<>>]

\* Whether s is t with some of its elements left out.
RECURSIVE IsSubsequence(_, _)
IsSubsequence(s, t) ==
  IF s = <<>> THEN TRUE
  ELSE IF t = <<>> THEN FALSE
  ELSE IF s[1] = t[1] THEN IsSubsequence(Tail(s), Tail(t))
  ELSE IsSubsequence(s, Tail(t))

\* The relays of a sequence of records.
RelaysOf(s) == [k \in 1..Len(s) |-> s[k].relay]

\* C24, in each state: the records ping() holds are, in this order, records
\* of the relays handed to RelaysPinger::new that stand before the task it
\* awaits; the records it returns are a subsequence of all of them; and when
\* it has failed, it has failed on the task it was awaiting, every task
\* before that one having yielded its record.
C24_State ==
  /\ stage = "pinging" => IsSubsequence(RelaysOf(results), SubSeq(relays, 1, idx - 1))
  /\ ret.tag = "Ok" => IsSubsequence(RelaysOf(ret.value), relays)
  /\ stage = "failed" =>
       /\ pc[relays[idx].ip] = "panicked"
       /\ \A k \in 1..(idx - 1) : pc[relays[k].ip] = "done"

\* C24, in each step: ping() moves on by one task at a time, to the next one
\* in the order of the relays and only past a task that has ended; it fails
\* in the step in which it finds the awaited task ended without a value,
\* whatever has become of the later tasks; and once it has failed it joins
\* nothing more.
C24_Step ==
  /\ idx' \in {idx, idx + 1}
  /\ idx' = idx + 1 =>
       /\ pc[relays[idx].ip] = "done"
       /\ results' \in {results, Append(results, RelayTimed(relays[idx], timings[relays[idx].ip]))}
  /\ (stage = "pinging" /\ stage' = "failed") =>
       pc[relays[idx].ip] = "panicked" /\ idx' = idx
  /\ stage = "failed" => idx' = idx /\ results' = results /\ ret' = ret /\ stage' = stage

\* C24: ping() joins the tasks one at a time in the order of the relays.
C24_JoinsInSubmissionOrder == []C24_State /\ [][C24_Step]_vars

\* C24 witness: the second relay's prober ended first, with a record; the
\* first one's then ended without a value, and ping() failed on it without
\* having joined the second.
C24_Witness ==
  /\ stage = "failed" /\ idx = 1 /\ Len(tasks) = 2 /\ count = 1
  /\ completed = <<relays[2].ip, relays[1].ip>>
  /\ pc[relays[2].ip] = "done" /\ timings[relays[2].ip] = <<1>>
  /\ ret.tag = "Err"

\* The relays load() builds that every Load-stage filter matches.
PassLoadFilters ==
  { r \in Built : \A k \in 1..Len(load_filters) : Filter_matches(load_filters[k], r) }

\* C21, in each state: as long as the relays are not loaded and handed to
\* RelaysPinger::new no prober exists and no attempt was made; a relay that
\* has a prober, or to which an attempt was made, is one that every
\* Load-stage filter matches; and a record that ping() holds, returns or
\* reports is that of a prober which ended after all `count` attempts had
\* resolved.
C21_State ==
  /\ stage \in {"located", "loader", "load_failed", "loaded", "bailed"} =>
       \A i \in Ips : pc[i] = "unspawned" /\ attempts[i] = 0 /\ outcomes[i] = <<>>
  /\ \A i \in Ips :
       (pc[i] # "unspawned" \/ attempts[i] > 0 \/ outcomes[i] # <<>>)
         => \E r \in PassLoadFilters : r.ip = i
  /\ \A t \in Yielded :
       /\ pc[t.relay.ip] = "done"
       /\ attempts[t.relay.ip] = count /\ Len(outcomes[t.relay.ip]) = count

\* C21, in each step: a step of load() comes before any prober; and the
\* step of ping() that puts the Ping-stage filters to a relay's record finds
\* the prober of that relay ended, all of its attempts resolved, and leaves
\* it so.
C21_Step ==
  /\ relays' # relays => \A i \in Ips : pc[i] = "unspawned" /\ pc'[i] = "unspawned"
  /\ idx' = idx + 1 =>
       LET i == tasks[idx].ip
       IN  /\ pc[i] = "done" /\ pc'[i] = "done"
           /\ attempts[i] = count /\ Len(outcomes[i]) = count
           /\ attempts'[i] = attempts[i] /\ outcomes'[i] = outcomes[i]

\* C21: the Load-stage filters come before all probing, the Ping-stage
\* filters after all the attempts of the relay they are put to.
C21_StagesAroundProbing == []C21_State /\ [][C21_Step]_vars

\* C21 witness: with a threshold of 30 km the relay 50 km away was left
\* out by the loader and never probed; the relay 10 km away was probed twice
\* and its record, which the RTT filter matches, was returned.
C21_Witness ==
  /\ stage = "pinged" /\ location = 0 /\ load_filters[1].distance = 30
  /\ data[1].ip = 1 /\ data[3].ip = 2
  /\ Len(relays) = 1 /\ relays[1].ip = 2
  /\ pc[1] = "unspawned" /\ attempts[1] = 0
  /\ count = 2 /\ attempts[2] = 2 /\ timings[2] = <<1, 2>>
  /\ filters = <<Some(1)>> /\ Len(ret.value) = 1

\* C25: no relay that load() returned is inactive; of an entry that is not
\* active there is no prober, no attempt was made to it, and no record of it
\* is held, returned or reported, whatever the Load-stage filters are.
C25_InactiveNeverLoaded ==
  /\ \A k \in 1..Len(relays) : relays[k].is_active
  /\ \A k \in 1..Len(tasks) : tasks[k].is_active
  /\ \A n \in 1..Len(data) :
       ~data[n].active =>
         /\ \A k \in 1..Len(relays) : relays[k].ip # data[n].ip
         /\ pc[data[n].ip] = "unspawned"
         /\ attempts[data[n].ip] = 0 /\ outcomes[data[n].ip] = <<>>
         /\ \A t \in Yielded : t.relay.ip # data[n].ip
  /\ \A t \in Yielded : t.relay.is_active

\* C25 witness: the filters let every distance and every protocol in and the
\* answer of the API lists an inactive relay between two active ones; the
\* two were loaded, OpenVPN first, probed and reported, the inactive one was
\* not.
C25_Witness ==
  /\ stage = "reported" /\ load_filters[1].distance = 500
  /\ load_filters[2].protocol = None
  /\ data[1].ip = 1 /\ data[2].ip = 5 /\ ~data[2].active /\ data[3].ip = 2
  /\ Len(relays) = 2 /\ relays[1].ip = 2 /\ relays[2].ip = 1
  /\ count = 1 /\ attempts[1] = 1 /\ attempts[2] = 1 /\ attempts[5] = 0
  /\ Len(report) = 2

====
